---- MODULE Spec2Model ----
(***************************************************************************)
(* A model of src/src/eval/eval.py: the match engine that plays a batch of *)
(* chess games between two players, resolves every turn with bounded       *)
(* retries (get_legal_move / play_turn), builds the PGN transcript         *)
(* (game_state) and adjudicates the result (record_results).               *)
(*                                                                         *)
(* Python strings are sequences of one-character strings, so that          *)
(* splitting, prefixes and trailing whitespace are computed, not assumed.  *)
(* An Optional value is a sequence of length 0 (None) or 1.                *)
(* The rules oracle (python-chess) is outside the repository: it is a      *)
(* small abstract game with the interface the code uses.                   *)
(***************************************************************************)
EXTENDS Integers, Sequences, FiniteSets, TLC

(***************************************************************************)
(* Bounds of the model                                                     *)
(***************************************************************************)
\* the move cap, scaled down from the program's 89 (eval.py:421-423)
MAX_MOVES == 1
\* the largest max_games a batch is started with
MaxGames == 2
\* the largest randomize_opening_moves a batch is started with
MaxDepth == 1
\* the most failed proposals the agents make in one game
MaxIllegal == 5

(***************************************************************************)
(* Program constants                                                       *)
(***************************************************************************)
\* the max_attempts play_turn passes to get_legal_move
TurnAttempts == 5
MAX_INIT_ATTEMPTS == 5

(***************************************************************************)
(* Python values                                                           *)
(***************************************************************************)
None == << >>
Some(v) == <<v>>
IsNone(o) == o = << >>
Val(o) == o[1]

Whitespace == {" ", "\n", "\t"}

\* str.startswith(" ")
StartsWithSpace(s) == Len(s) > 0 /\ s[1] = " "

EndsInWhitespace(s) == Len(s) > 0 /\ s[Len(s)] \in Whitespace

\* c in s, for a one-character c
Contains(s, c) == \E i \in 1..Len(s) : s[i] = c

\* str(n) for n >= 0
RECURSIVE StrOfNat(_)
StrOfNat(n) ==
  LET d == <<"0", "1", "2", "3", "4", "5", "6", "7", "8", "9">>
  IN IF n < 10 THEN <<d[n + 1]>> ELSE StrOfNat(n \div 10) \o <<d[(n % 10) + 1]>>

\* s.split(c): the pieces between the occurrences of c, empty pieces kept
RECURSIVE SplitOn(_, _)
SplitOn(s, c) ==
  IF ~Contains(s, c) THEN <<s>>
  ELSE LET i == CHOOSE k \in 1..Len(s) : s[k] = c /\ \A j \in 1..(k - 1) : s[j] # c
       IN <<SubSeq(s, 1, i - 1)>> \o SplitOn(SubSeq(s, i + 1, Len(s)), c)

\* s.split(): the maximal runs of non-whitespace characters
RECURSIVE SplitWs(_)
SplitWs(s) ==
  IF s = << >> THEN << >>
  ELSE IF s[1] \in Whitespace THEN SplitWs(Tail(s))
  ELSE LET n == IF \E k \in 1..Len(s) : s[k] \in Whitespace
                THEN (CHOOSE k \in 1..Len(s) :
                        s[k] \in Whitespace /\ \A j \in 1..(k - 1) : s[j] \notin Whitespace) - 1
                ELSE Len(s)
       IN <<SubSeq(s, 1, n)>> \o SplitWs(SubSeq(s, n + 1, Len(s)))

Last(seq) == seq[Len(seq)]

\* a Python number, in halves (0.5 is 1), or a Python str
Num(h) == [kind |-> "num", halves |-> h, text |-> << >>]
Str(s) == [kind |-> "str", halves |-> 0, text |-> s]
\* the float -1e10, which is beyond the model's integers
Sentinel == [kind |-> "-1e10", halves |-> 0, text |-> << >>]

(***************************************************************************)
(* The rules oracle: chess.Board, as far as the code calls it.  The board  *)
(* is its move stack.  In every position that is not over the side to move *)
(* has one quiet move (White Nf3, Black Nf6), one mating move and one      *)
(* stalemating move.                                                       *)
(***************************************************************************)
QuietMoves == {"Nf3", "Nf6"}
MateMove == "Qf7#"
DrawMove == "Qg6"
NullMove == "0000"

\* chess.Board() / board.reset()
NewBoard == << >>

\* board.turn: White moves on an even number of plies played
WhiteToMove(b) == Len(b) % 2 = 0

fullmove_number(b) == (Len(b) \div 2) + 1

is_game_over(b) == Len(b) > 0 /\ Last(b) \in {MateMove, DrawMove}

\* board.result()
result_of(b) ==
  IF ~is_game_over(b) THEN <<"*">>
  ELSE IF Last(b) = DrawMove THEN <<"1", "/", "2", "-", "1", "/", "2">>
  ELSE IF Len(b) % 2 = 1 THEN <<"1", "-", "0">>
  ELSE <<"0", "-", "1">>

legal_moves(b) ==
  IF is_game_over(b) THEN {}
  ELSE {IF WhiteToMove(b) THEN "Nf3" ELSE "Nf6", MateMove, DrawMove}

\* board.san(move)
san(m) ==
  CASE m = "Nf3" -> <<"N", "f", "3">>
    [] m = "Nf6" -> <<"N", "f", "6">>
    [] m = "Qf7#" -> <<"Q", "f", "7", "#">>
    [] m = "Qg6" -> <<"Q", "g", "6">>
    [] OTHER -> <<"-", "-">>

push(b, m) == Append(b, m)

\* the texts parse_san reads as move m: its SAN, and the SAN without the
\* mate sign
TextsOf(m) == {san(m)} \cup (IF m = MateMove THEN {<<"Q", "f", "7">>} ELSE {})

\* board.parse_san(text): Some(move), or None when it raises.  It raises on
\* no text, on text that is no SAN and on a SAN move that is not legal here;
\* "--" parses to the null move, which is never legal.
parse_san(b, text) ==
  IF IsNone(text) THEN None
  ELSE IF Val(text) = <<"-", "-">> THEN Some(NullMove)
  ELSE IF \E m \in legal_moves(b) : Val(text) \in TextsOf(m)
       THEN Some(CHOOSE m \in legal_moves(b) : Val(text) \in TextsOf(m))
  ELSE None

(***************************************************************************)
(* The players (src/eval/players is outside src/): a player answers        *)
(* get_move with any text or with None, and get_config() holds either a    *)
(* "model" key or "skill_level" and "play_time" (eval.py:129-146).         *)
(***************************************************************************)
ChessGPTPlayer(model) == [cls |-> "ChessGPTPlayer", config |-> [model |-> model]]
StockfishPlayer(level) ==
  [cls |-> "StockfishPlayer", config |-> [skill_level |-> level, play_time |-> "0.1"]]

\* the pairs (player_one, player_two) a batch is started with: each kind of
\* player in each seat
PlayerPairs ==
  {<<ChessGPTPlayer("gpt-3.5-turbo-instruct"), StockfishPlayer(1)>>,
   <<StockfishPlayer(1), ChessGPTPlayer("nanogpt")>>,
   <<ChessGPTPlayer("nanogpt"), ChessGPTPlayer("gpt-3.5-turbo-instruct")>>}

ResultMarkers ==
  {<<"1", "-", "0">>, <<"0", "-", "1">>, <<"1", "/", "2", "-", "1", "/", "2">>}

\* what player.get_move may return
Proposals ==
  {None} \cup {Some(t) : t \in ResultMarkers}
         \cup {Some(t) : t \in UNION {TextsOf(m) : m \in QuietMoves \cup {MateMove, DrawMove, NullMove}}}
         \cup {Some(<<"Q", "h", "5">>)}

\* the content of tmp/prompt.txt
Templates == {<<";">>, <<"[", "]", "\n">>}

(***************************************************************************)
(* State                                                                   *)
(***************************************************************************)
VARIABLES
  pc,                      \* the place play_game has reached
  player_one, player_two,  \* play_game's arguments
  max_games,
  randomize_opening_moves, \* None or Some(depth)
  games_done,              \* iterations of "for _ in range(max_games)" completed
  board, game_state,
  initial_game_state, init_attempt, moveIdx, player, moves,
                           \* locals of initialize_game_with_random_moves
  player_one_illegal_moves, player_two_illegal_moves,
  player_one_legal_moves, player_two_legal_moves,
  player_one_resignation, player_two_resignation,
  player_one_failed_to_find_legal_move, player_two_failed_to_find_legal_move,
  total_moves, illegal_moves,
  side,                    \* whose turn play_turn resolves: "one" or "two"
  max_attempts,            \* get_legal_move's parameter
  attempt,                 \* get_legal_move's loop variable
  proposals,               \* calls of player.get_move made in this turn
  urgency,                 \* the third argument of the last get_move call of this
                           \* turn, in units of 1 / (1000 * max_attempts)
  response,                \* None or Some(LegalMoveResponse) returned to play_turn
  turn_illegal,            \* illegal_moves_one / illegal_moves_two
  diag_written,            \* the last attempt appended to the illegal-moves file
  checkpoint,              \* the content of tmp/game.txt
  n_records,               \* rows appended to the csv in this batch
  closed,                  \* calls of close() on each player
  raised                   \* None or Some(exception) that left play_game

vars ==
  <<pc, player_one, player_two, max_games, randomize_opening_moves, games_done,
    board, game_state, initial_game_state, init_attempt, moveIdx, player, moves,
    player_one_illegal_moves, player_two_illegal_moves,
    player_one_legal_moves, player_two_legal_moves,
    player_one_resignation, player_two_resignation,
    player_one_failed_to_find_legal_move, player_two_failed_to_find_legal_move,
    total_moves, illegal_moves, side, max_attempts, attempt, proposals, urgency,
    response, turn_illegal,
    diag_written, checkpoint, n_records, closed, raised>>

batchVars == <<player_one, player_two, max_games, randomize_opening_moves>>
openingVars == <<initial_game_state, init_attempt, moveIdx, player, moves>>
counterVars ==
  <<player_one_illegal_moves, player_two_illegal_moves,
    player_one_legal_moves, player_two_legal_moves, total_moves, illegal_moves>>
flagVars ==
  <<player_one_resignation, player_two_resignation,
    player_one_failed_to_find_legal_move, player_two_failed_to_find_legal_move>>
turnVars ==
  <<side, max_attempts, attempt, proposals, urgency, response, turn_illegal, diag_written>>
outVars == <<n_records, closed, raised>>

Init ==
  /\ pc = "for_games"
  /\ \E pair \in PlayerPairs : player_one = pair[1] /\ player_two = pair[2]
  /\ max_games \in 0..MaxGames
  /\ randomize_opening_moves \in {None} \cup {Some(d) : d \in 0..MaxDepth}
  /\ games_done = 0
  /\ board = NewBoard
  /\ game_state = << >>
  /\ initial_game_state = << >>
  /\ init_attempt = 0
  /\ moveIdx = 0
  /\ player = 0
  /\ moves = {}
  /\ player_one_illegal_moves = 0
  /\ player_two_illegal_moves = 0
  /\ player_one_legal_moves = 0
  /\ player_two_legal_moves = 0
  /\ player_one_resignation = FALSE
  /\ player_two_resignation = FALSE
  /\ player_one_failed_to_find_legal_move = FALSE
  /\ player_two_failed_to_find_legal_move = FALSE
  /\ total_moves = 0
  /\ illegal_moves = 0
  /\ side = "one"
  /\ max_attempts = TurnAttempts
  /\ attempt = 0
  /\ proposals = 0
  /\ urgency = 0
  /\ response = None
  /\ turn_illegal = 0
  /\ diag_written = FALSE
  /\ checkpoint = << >>
  /\ n_records = 0
  /\ closed = [one |-> 0, two |-> 0]
  /\ raised = None

(***************************************************************************)
(* get_legal_move                                                          *)
(***************************************************************************)
LegalMoveResponse(ms, mu, att, res, ill) ==
  [move_san |-> ms, move_uci |-> mu, attempts |-> att,
   is_resignation |-> res, is_illegal_move |-> ill]

\* the return inside the loop when the text is a result marker
ResignationResponse(att) == LegalMoveResponse(None, None, att, TRUE, FALSE)

\* a variant that returns the text as the player gave it
LegalResponseRaw(text, m, att) == LegalMoveResponse(Some(text), Some(m), att, FALSE, FALSE)

\* the return inside the loop for a legal move: the text gets one leading space
LegalResponse(text, m, att) ==
  LegalMoveResponse(
    Some(IF ~StartsWithSpace(text) THEN <<" ">> \o text ELSE text), Some(m), att, FALSE, FALSE)

\* a variant that reports the loop variable, as the returns inside the loop do
ExhaustedResponseLoopVar == LegalMoveResponse(None, None, attempt, FALSE, TRUE)

\* the return after the loop
ExhaustedResponse == LegalMoveResponse(None, None, max_attempts, FALSE, TRUE)

\* the except clause: the config is indexed by "model" before anything else
ExceptRaises(plr) == "model" \notin DOMAIN plr.config

ExceptWrites(plr) ==
  "model" \in DOMAIN plr.config /\ plr.config.model = "gpt-3.5-turbo-instruct"

\* one iteration of "for attempt in range(max_attempts)" on the text the
\* player returned: it returns a response, raises, or goes on to the next
\* iteration
Iteration(plr, b, text, att) ==
  IF ~IsNone(text) /\ Val(text) \in ResultMarkers
  THEN [kind |-> "return", response |-> ResignationResponse(att), wrote |-> FALSE]
  ELSE IF IsNone(parse_san(b, text))
  THEN IF ExceptRaises(plr)
       THEN [kind |-> "raise", response |-> ExhaustedResponse, wrote |-> FALSE]
       ELSE [kind |-> "continue", response |-> ExhaustedResponse, wrote |-> ExceptWrites(plr)]
  ELSE IF Val(parse_san(b, text)) \in legal_moves(b)
  THEN [kind |-> "return",
        response |-> LegalResponse(Val(text), Val(parse_san(b, text)), att),
        wrote |-> FALSE]
  ELSE [kind |-> "continue", response |-> ExhaustedResponse, wrote |-> FALSE]

\* a variant without the cap
UrgencyUncapped(att, max) == att * 1000 + max

\* min(((attempt / max_attempts) * 1) + 0.001, 0.5), times 1000 * max_attempts
Urgency(att, max) ==
  IF att * 1000 + max < 500 * max THEN att * 1000 + max ELSE 500 * max

\* the loop is over after iteration att
LoopEnds(att) == att + 1 >= max_attempts

Mover == IF side = "one" THEN player_one ELSE player_two

\* the failed proposals of one game are bounded by MaxIllegal
MayFail == player_one_illegal_moves + player_two_illegal_moves + attempt < MaxIllegal

GetMove ==
  /\ pc = "get_move"
  /\ \E text \in Proposals :
       LET it == Iteration(Mover, board, text, attempt) IN
       /\ it.kind = "return" \/ MayFail
       /\ proposals' = proposals + 1
       /\ urgency' = Urgency(attempt, max_attempts)
       /\ diag_written' = it.wrote
       /\ CASE it.kind = "return" ->
                 /\ response' = Some(it.response)
                 /\ pc' = "play_turn"
                 /\ UNCHANGED <<attempt, raised>>
            [] it.kind = "raise" ->
                 /\ raised' = Some("KeyError")
                 /\ pc' = "raised"
                 /\ UNCHANGED <<attempt, response>>
            [] OTHER ->
                 /\ IF LoopEnds(attempt)
                    THEN /\ response' = Some(ExhaustedResponse)
                         /\ pc' = "play_turn"
                         /\ UNCHANGED attempt
                    ELSE /\ attempt' = attempt + 1
                         /\ UNCHANGED <<response, pc>>
                 /\ UNCHANGED raised
  /\ UNCHANGED <<batchVars, games_done, board, game_state, openingVars, counterVars,
                 flagVars, side, max_attempts, turn_illegal, checkpoint, n_records, closed>>

(***************************************************************************)
(* play_turn, and the assignment of its result in play_game                *)
(***************************************************************************)
\* play_turn pushes and appends only in its last branch
TurnMoves(r) ==
  ~r.is_resignation /\ ~r.is_illegal_move /\ ~IsNone(r.move_san) /\ ~IsNone(r.move_uci)

TurnBoard(b, r) == IF TurnMoves(r) THEN push(b, Val(r.move_uci)) ELSE b

TurnGameState(gs, r) == IF TurnMoves(r) THEN gs \o Val(r.move_san) ELSE gs

PlayTurn ==
  /\ pc = "play_turn"
  /\ LET r == Val(response) IN
       /\ board' = TurnBoard(board, r)
       /\ game_state' = TurnGameState(game_state, r)
       /\ turn_illegal' = r.attempts
       /\ IF side = "one"
          THEN /\ player_one_resignation' = r.is_resignation
               /\ player_one_failed_to_find_legal_move' = r.is_illegal_move
               /\ UNCHANGED <<player_two_resignation, player_two_failed_to_find_legal_move>>
          ELSE /\ player_two_resignation' = r.is_resignation
               /\ player_two_failed_to_find_legal_move' = r.is_illegal_move
               /\ UNCHANGED <<player_one_resignation, player_one_failed_to_find_legal_move>>
  /\ response' = None
  /\ diag_written' = FALSE
  /\ pc' = "after_turn"
  /\ UNCHANGED <<batchVars, games_done, openingVars, counterVars, side, max_attempts,
                 attempt, proposals, urgency, checkpoint, outVars>>

(***************************************************************************)
(* record_results                                                          *)
(***************************************************************************)
\* the scores of a board result that holds a "-": the two pieces of the
\* split, as they are (text)
NaturalScores(res) ==
  [one |-> Str(SplitOn(res, "-")[1]), two |-> Str(SplitOn(res, "-")[2])]

\* a variant that looks at the board's result before the four flags
AdjudicateBoardFirst(b, one_res, two_res, one_failed, two_failed) ==
  IF Contains(result_of(b), "-")
  THEN [result |-> result_of(b),
        player_one_score |-> NaturalScores(result_of(b)).one,
        player_two_score |-> NaturalScores(result_of(b)).two]
  ELSE IF result_of(b) = <<"*">>
  THEN [result |-> result_of(b), player_one_score |-> Num(1), player_two_score |-> Num(1)]
  ELSE IF one_res \/ one_failed
  THEN [result |-> <<"0", "-", "1">>, player_one_score |-> Num(0), player_two_score |-> Num(2)]
  ELSE [result |-> <<"1", "-", "0">>, player_one_score |-> Num(2), player_two_score |-> Num(0)]

\* a variant without the branch for "*"
AdjudicateNoStar(b, one_res, two_res, one_failed, two_failed) ==
  IF one_res \/ one_failed
  THEN [result |-> <<"0", "-", "1">>, player_one_score |-> Num(0), player_two_score |-> Num(2)]
  ELSE IF two_res \/ two_failed
  THEN [result |-> <<"1", "-", "0">>, player_one_score |-> Num(2), player_two_score |-> Num(0)]
  ELSE IF Contains(result_of(b), "-")
  THEN [result |-> result_of(b),
        player_one_score |-> NaturalScores(result_of(b)).one,
        player_two_score |-> NaturalScores(result_of(b)).two]
  ELSE [result |-> result_of(b),
        player_one_score |-> Sentinel, player_two_score |-> Sentinel]

\* the if / elif / else that sets result and the two scores
Adjudicate(b, one_res, two_res, one_failed, two_failed) ==
  IF one_res \/ one_failed
  THEN [result |-> <<"0", "-", "1">>, player_one_score |-> Num(0), player_two_score |-> Num(2)]
  ELSE IF two_res \/ two_failed
  THEN [result |-> <<"1", "-", "0">>, player_one_score |-> Num(2), player_two_score |-> Num(0)]
  ELSE IF Contains(result_of(b), "-")
  THEN [result |-> result_of(b),
        player_one_score |-> NaturalScores(result_of(b)).one,
        player_two_score |-> NaturalScores(result_of(b)).two]
  ELSE IF result_of(b) = <<"*">>
  THEN [result |-> result_of(b), player_one_score |-> Num(1), player_two_score |-> Num(1)]
  ELSE [result |-> result_of(b),
        player_one_score |-> Sentinel, player_two_score |-> Sentinel]

\* get_player_titles_and_time, for one player
PlayerTitle(plr) ==
  IF "model" \in DOMAIN plr.config THEN <<plr.config.model>>
  ELSE <<"stockfish_", plr.config.skill_level>>

PlayerTime(plr) ==
  IF "model" \in DOMAIN plr.config THEN None ELSE Some(plr.config.play_time)

\* info_dict, without game_id and time_taken (a clock and a random number)
InfoDict ==
  LET a == Adjudicate(board, player_one_resignation, player_two_resignation,
                      player_one_failed_to_find_legal_move,
                      player_two_failed_to_find_legal_move)
  IN [transcript |-> game_state,
      result |-> a.result,
      player_one |-> PlayerTitle(player_one),
      player_two |-> PlayerTitle(player_two),
      player_one_time |-> PlayerTime(player_one),
      player_two_time |-> PlayerTime(player_two),
      player_one_score |-> a.player_one_score,
      player_two_score |-> a.player_two_score,
      player_one_illegal_moves |-> player_one_illegal_moves,
      player_two_illegal_moves |-> player_two_illegal_moves,
      player_one_legal_moves |-> player_one_legal_moves,
      player_two_legal_moves |-> player_two_legal_moves,
      player_one_resignation |-> player_one_resignation,
      player_two_resignation |-> player_two_resignation,
      player_one_failed_to_find_legal_move |-> player_one_failed_to_find_legal_move,
      player_two_failed_to_find_legal_move |-> player_two_failed_to_find_legal_move,
      number_of_moves |-> fullmove_number(board),
      total_moves |-> total_moves,
      illegal_moves |-> illegal_moves]

\* the call of record_results that ends a game: InfoDict is appended to the
\* csv as one row, and the final transcript is written to tmp/game.txt.  The
\* locals of the iteration that ends here are not read again: lines 312-332
\* set them anew, and the model does so here.
RecordResults ==
  /\ pc = "record"
  /\ n_records' = n_records + 1
  /\ checkpoint' = game_state
  /\ games_done' = games_done + 1
  /\ pc' = "for_games"
  /\ board' = NewBoard
  /\ game_state' = << >>
  /\ player_one_illegal_moves' = 0
  /\ player_two_illegal_moves' = 0
  /\ player_one_legal_moves' = 0
  /\ player_two_legal_moves' = 0
  /\ player_one_resignation' = FALSE
  /\ player_two_resignation' = FALSE
  /\ player_one_failed_to_find_legal_move' = FALSE
  /\ player_two_failed_to_find_legal_move' = FALSE
  /\ total_moves' = 0
  /\ illegal_moves' = 0
  /\ moves' = {}
  /\ moveIdx' = 0
  /\ player' = 0
  /\ init_attempt' = 0
  /\ side' = "one"
  /\ UNCHANGED <<batchVars, initial_game_state, max_attempts, attempt, proposals,
                 urgency, response, turn_illegal, diag_written, closed, raised>>

(***************************************************************************)
(* initialize_game_with_random_moves                                       *)
(***************************************************************************)
Depth == Val(randomize_opening_moves)

\* a variant that numbers Black's moves too
OpeningTextNumbered(idx, plr, m) ==
  (IF idx > 1 \/ plr = 1 THEN <<" ">> ELSE << >>) \o StrOfNat(idx) \o <<".", " ">> \o san(m)

\* the text appended for one random move
OpeningText(idx, plr, m) ==
  (IF idx > 1 \/ plr = 1 THEN <<" ">> ELSE << >>)
  \o (IF plr = 0 THEN StrOfNat(idx) \o <<".", " ">> \o san(m) ELSE san(m))

\* the head of "for attempt in range(MAX_INIT_ATTEMPTS)": a reset, or the
\* raise of the else clause; with a depth of 0 the attempt generates nothing
\* and is over at once
InitAttempt ==
  /\ pc = "init_attempt"
  /\ IF init_attempt < MAX_INIT_ATTEMPTS
     THEN /\ board' = NewBoard
          /\ game_state' = initial_game_state
          /\ moves' = {}
          /\ IF Depth >= 1
             THEN /\ moveIdx' = 1
                  /\ player' = 0
                  /\ pc' = "init_ply"
                  /\ UNCHANGED init_attempt
             ELSE /\ init_attempt' = init_attempt + 1
                  /\ UNCHANGED <<moveIdx, player, pc>>
          /\ UNCHANGED raised
     ELSE /\ raised' = Some("Exception")
          /\ pc' = "raised"
          /\ UNCHANGED <<board, game_state, moves, moveIdx, player, init_attempt>>
  /\ UNCHANGED <<batchVars, games_done, initial_game_state, counterVars, flagVars,
                 turnVars, checkpoint, n_records, closed>>

\* one pass of the body of "for player in range(2)"
InitPly ==
  /\ pc = "init_ply"
  /\ moves' = IF player = 1 /\ moveIdx >= Depth /\ legal_moves(board) # {}
              THEN {} ELSE legal_moves(board)
  /\ IF legal_moves(board) = {}
     THEN \* both loops break and the attempt is over
          /\ init_attempt' = init_attempt + 1
          /\ pc' = "init_attempt"
          /\ UNCHANGED <<board, game_state, moveIdx, player, initial_game_state>>
     ELSE \E m \in legal_moves(board) :
          /\ game_state' = game_state \o OpeningText(moveIdx, player, m)
          /\ board' = push(board, m)
          /\ IF player = 0
             THEN /\ player' = 1
                  /\ UNCHANGED <<moveIdx, pc, initial_game_state>>
             ELSE IF moveIdx < Depth
             THEN /\ player' = 0
                  /\ moveIdx' = moveIdx + 1
                  /\ UNCHANGED <<pc, initial_game_state>>
             ELSE \* the opening is returned to play_game, the locals are gone
                  /\ pc' = "while"
                  /\ initial_game_state' = << >>
                  /\ moveIdx' = 0
                  /\ player' = 0
          /\ init_attempt' = IF player = 1 /\ moveIdx >= Depth THEN 0 ELSE init_attempt
  /\ UNCHANGED <<batchVars, games_done, counterVars, flagVars, turnVars, checkpoint,
                 outVars>>

(***************************************************************************)
(* play_game                                                               *)
(***************************************************************************)
\* the start of one iteration of "for _ in range(max_games)": the template
\* is read and the board is new
StartGame ==
  /\ pc = "for_games"
  /\ games_done < max_games
  /\ \E t \in Templates :
       /\ game_state' = t
       /\ IF IsNone(randomize_opening_moves)
          THEN /\ pc' = "while"
               /\ UNCHANGED <<initial_game_state, init_attempt>>
          ELSE /\ pc' = "init_attempt"
               /\ initial_game_state' = t
               /\ init_attempt' = 0
  /\ board' = NewBoard
  /\ UNCHANGED <<batchVars, games_done, moveIdx, player, moves, counterVars, flagVars,
                 turnVars, checkpoint, outVars>>

\* a variant that puts the separating space after the number
MoveNumberTextSpaceAfter(b) == StrOfNat(fullmove_number(b)) \o <<".", " ">>

\* a variant that never puts a space before the number
MoveNumberTextGlued(b) == StrOfNat(fullmove_number(b)) \o <<".">>

\* the move number appended before player one's turn
MoveNumberText(b) ==
  (IF fullmove_number(b) # 1 THEN <<" ">> ELSE << >>) \o StrOfNat(fullmove_number(b)) \o <<".">>

\* a variant that writes the file after the move number is appended
LoopHeadCheckpointLate(gs, b) == gs \o MoveNumberText(b)

\* what lines 335-336 write to tmp/game.txt, first thing in an iteration
LoopHeadCheckpoint(gs, b) == gs

\* the test of the while loop and, when the game goes on, the lines up to
\* the call of play_turn for player one
While ==
  /\ pc = "while"
  /\ IF is_game_over(board)
     THEN /\ pc' = "record"
          /\ UNCHANGED <<checkpoint, counterVars, game_state, turnVars>>
     ELSE /\ checkpoint' = LoopHeadCheckpoint(game_state, board)
          /\ total_moves' = total_moves + 1
          /\ player_one_legal_moves' = player_one_legal_moves + 1
          /\ player_two_legal_moves' = player_two_legal_moves + 1
          /\ game_state' = game_state \o MoveNumberText(board)
          /\ side' = "one"
          /\ max_attempts' = TurnAttempts
          /\ attempt' = 0
          /\ proposals' = 0
          /\ urgency' = 0
          /\ pc' = "get_move"
          /\ UNCHANGED <<player_one_illegal_moves, player_two_illegal_moves, illegal_moves,
                         response, turn_illegal, diag_written>>
  /\ UNCHANGED <<batchVars, games_done, board, openingVars, flagVars, outVars>>

\* a variant that does not look at the exhaustion
TurnBreaksNoExhaustion(b, res, failed) == is_game_over(b) \/ res

\* a variant that does not look at the resignation
TurnBreaksNoResignation(b, res, failed) == is_game_over(b) \/ failed

\* the break after a turn
TurnBreaks(b, res, failed) == is_game_over(b) \/ res \/ failed

\* a variant that is late by one iteration
CapReachedLate(n) == n > MAX_MOVES + 1

\* the break at the end of an iteration of the while loop
CapReached(n) == n > MAX_MOVES

\* a variant that takes the cost off the counter
LegalAfterTurnLessCost(legal, cost) == legal - cost

\* "if illegal_moves_one != 0: player_one_legal_moves -= 1", and the same
\* for player two
LegalAfterTurn(legal, cost) == IF cost # 0 THEN legal - 1 ELSE legal

\* lines 357-365: the bookkeeping after player one's turn
AfterTurnOne ==
  /\ pc = "after_turn"
  /\ side = "one"
  /\ player_one_illegal_moves' = player_one_illegal_moves + turn_illegal
  /\ player_one_legal_moves' = LegalAfterTurn(player_one_legal_moves, turn_illegal)
  /\ IF TurnBreaks(board, player_one_resignation, player_one_failed_to_find_legal_move)
     THEN /\ pc' = "record"
          /\ UNCHANGED side
     ELSE /\ pc' = "get_move"
          /\ side' = "two"
  /\ max_attempts' = TurnAttempts
  /\ attempt' = 0
  /\ proposals' = 0
  /\ urgency' = 0
  /\ turn_illegal' = 0
  /\ UNCHANGED <<batchVars, games_done, board, game_state, openingVars,
                 player_two_illegal_moves, player_two_legal_moves, total_moves,
                 illegal_moves, flagVars, response, diag_written, checkpoint, outVars>>

\* lines 373-386: the bookkeeping after player two's turn, and the move cap
AfterTurnTwo ==
  /\ pc = "after_turn"
  /\ side = "two"
  /\ player_two_illegal_moves' = player_two_illegal_moves + turn_illegal
  /\ player_two_legal_moves' = LegalAfterTurn(player_two_legal_moves, turn_illegal)
  /\ IF TurnBreaks(board, player_two_resignation, player_two_failed_to_find_legal_move)
     THEN pc' = "record"
     ELSE IF CapReached(total_moves)
     THEN pc' = "record"
     ELSE pc' = "while"
  /\ attempt' = 0
  /\ proposals' = 0
  /\ urgency' = 0
  /\ turn_illegal' = 0
  /\ UNCHANGED <<batchVars, games_done, board, game_state, openingVars,
                 player_one_illegal_moves, player_one_legal_moves, total_moves,
                 illegal_moves, flagVars, side, max_attempts, response, diag_written, checkpoint,
                 outVars>>

IsStockfish(plr) == plr.cls = "StockfishPlayer"

\* lines 411-414, after the last game
Close ==
  /\ pc = "for_games"
  /\ games_done >= max_games
  /\ closed' = [one |-> closed.one + (IF IsStockfish(player_one) THEN 1 ELSE 0),
                two |-> closed.two + (IF IsStockfish(player_two) THEN 1 ELSE 0)]
  /\ pc' = "done"
  /\ UNCHANGED <<batchVars, games_done, board, game_state, openingVars, counterVars,
                 flagVars, turnVars, checkpoint, n_records, raised>>

Next ==
  \/ StartGame
  \/ InitAttempt
  \/ InitPly
  \/ While
  \/ GetMove
  \/ PlayTurn
  \/ AfterTurnOne
  \/ AfterTurnTwo
  \/ RecordResults
  \/ Close

Spec == Init /\ [][Next]_vars

(***************************************************************************)
(* One call of play_turn on its own, with get_legal_move's max_attempts    *)
(* any number from 1 up: the turn of player one on a new board, or of      *)
(* player two after one quiet move.                                        *)
(***************************************************************************)
TurnStarts ==
  {[board |-> NewBoard, game_state |-> <<";", "1", ".">>, side |-> "one"],
   [board |-> <<"Nf3">>, game_state |-> <<";", "1", ".", " ", "N", "f", "3">>,
    side |-> "two"]}

InitTurn ==
  /\ pc = "get_move"
  /\ \E pair \in PlayerPairs : player_one = pair[1] /\ player_two = pair[2]
  /\ max_games = 1
  /\ randomize_opening_moves = None
  /\ games_done = 0
  /\ \E st \in TurnStarts :
       /\ board = st.board
       /\ game_state = st.game_state
       /\ side = st.side
  /\ initial_game_state = << >>
  /\ init_attempt = 0
  /\ moveIdx = 0
  /\ player = 0
  /\ moves = {}
  /\ player_one_illegal_moves = 0
  /\ player_two_illegal_moves = 0
  /\ player_one_legal_moves = 1
  /\ player_two_legal_moves = 1
  /\ player_one_resignation = FALSE
  /\ player_two_resignation = FALSE
  /\ player_one_failed_to_find_legal_move = FALSE
  /\ player_two_failed_to_find_legal_move = FALSE
  /\ total_moves = 1
  /\ illegal_moves = 0
  /\ max_attempts \in 1..MaxIllegal
  /\ attempt = 0
  /\ proposals = 0
  /\ urgency = 0
  /\ response = None
  /\ turn_illegal = 0
  /\ diag_written = FALSE
  /\ checkpoint = <<";">>
  /\ n_records = 0
  /\ closed = [one |-> 0, two |-> 0]
  /\ raised = None

NextTurn ==
  \/ GetMove
  \/ PlayTurn

SpecTurn == InitTurn /\ [][NextTurn]_vars

(***************************************************************************)
(* Properties                                                              *)
(***************************************************************************)
InGame == pc \in {"while", "get_move", "play_turn", "after_turn", "record"}

\* the plies the opening pushed
OpeningPlies == IF IsNone(randomize_opening_moves) THEN 0 ELSE 2 * Depth

\* the plies play_game's loop has pushed in the game in progress
PliesPlayed == Len(board) - OpeningPlies

NoFlag ==
  /\ ~player_one_resignation
  /\ ~player_two_resignation
  /\ ~player_one_failed_to_find_legal_move
  /\ ~player_two_failed_to_find_legal_move

\* C1: the attempt count get_legal_move returns is in 0..max_attempts; it is
\* max_attempts exactly when the response is the exhausted one
\* (is_illegal_move), and a legal move or a resignation carries fewer.
C1_AttemptCount ==
  pc = "play_turn" =>
    LET r == Val(response) IN
      /\ r.attempts \in 0..max_attempts
      /\ (r.attempts = max_attempts) <=> r.is_illegal_move
      /\ (r.is_resignation \/ ~IsNone(r.move_uci)) => r.attempts < max_attempts
      /\ ~(r.is_resignation /\ r.is_illegal_move)

C1_Witness ==
  /\ pc = "play_turn"
  /\ Val(response).is_illegal_move
  /\ Val(response).attempts = TurnAttempts
  /\ max_attempts = TurnAttempts

\* C2: in the row record_results writes, a side that resigned or exhausted
\* its attempts scores 0, the other side scores 1, and the result names the
\* other side as winner.
C2_LoserScoresZero ==
  pc = "record" =>
    /\ (player_one_resignation \/ player_one_failed_to_find_legal_move) =>
         /\ InfoDict.result = <<"0", "-", "1">>
         /\ InfoDict.player_one_score = Num(0)
         /\ InfoDict.player_two_score = Num(2)
    /\ (player_two_resignation \/ player_two_failed_to_find_legal_move) =>
         /\ InfoDict.result = <<"1", "-", "0">>
         /\ InfoDict.player_one_score = Num(2)
         /\ InfoDict.player_two_score = Num(0)

\* player two exhausts its attempts in the iteration that also passes the cap
C2_Witness ==
  /\ pc = "record"
  /\ player_two_failed_to_find_legal_move
  /\ total_moves > MAX_MOVES
  /\ InfoDict.player_one_score = Num(2)

\* C3: a result marker ends the turn at once as a resignation: the call that
\* returned it is the last of the turn, the attempts reported are the failed
\* proposals before it, and once a side has resigned no player is asked for
\* a move again in that game; the side that resigned is the one that moved
\* and is recorded as the loser.
C3_ResignationEndsTurnAndGame ==
  /\ (pc = "play_turn" /\ Val(response).is_resignation) =>
       /\ Val(response).attempts = proposals - 1
       /\ IsNone(Val(response).move_san)
  /\ player_one_resignation =>
       /\ pc \in {"after_turn", "record"}
       /\ side = "one"
       /\ ~is_game_over(board)
  /\ player_two_resignation =>
       /\ pc \in {"after_turn", "record"}
       /\ side = "two"
       /\ ~is_game_over(board)
  /\ (pc = "after_turn" /\ (player_one_resignation \/ player_two_resignation)) =>
       turn_illegal = proposals - 1
  /\ (pc = "record" /\ player_one_resignation) => InfoDict.result = <<"0", "-", "1">>
  /\ (pc = "record" /\ player_two_resignation) => InfoDict.result = <<"1", "-", "0">>

\* player two resigns at its third proposal
C3_Witness ==
  /\ pc = "record"
  /\ player_two_resignation
  /\ player_two_illegal_moves = 2

\* C4: every score that is not the sentinel is a number among 0, 0.5 and 1,
\* and the two scores add up to 0 or 1 (0.5 and 0.5 at the move cap).
C4_ScoresNumeric ==
  pc = "record" =>
    LET one == InfoDict.player_one_score
        two == InfoDict.player_two_score
    IN (one # Sentinel /\ two # Sentinel) =>
         /\ one.kind = "num" /\ one.halves \in {0, 1, 2}
         /\ two.kind = "num" /\ two.halves \in {0, 1, 2}
         /\ one.halves + two.halves \in {0, 2}

\* C5, as claimed: the loop never pushes more than MAX_MOVES + 1 plies.
C5_PlyCeiling == InGame => PliesPlayed <= MAX_MOVES + 1

\* C5, amended: the cap counts iterations of the while loop (two plies each)
\* and is tested only at the end of an iteration, after player two's turn:
\* the loop starts at most MAX_MOVES + 1 iterations and pushes at most
\* 2 * (MAX_MOVES + 1) plies, and a game that the cap ends has completed
\* exactly MAX_MOVES + 1 iterations.
C5_MoveCeiling ==
  InGame =>
    /\ total_moves <= MAX_MOVES + 1
    /\ PliesPlayed <= 2 * total_moves
    /\ (pc = "record" /\ NoFlag /\ ~is_game_over(board)) =>
         /\ total_moves = MAX_MOVES + 1
         /\ PliesPlayed = 2 * (MAX_MOVES + 1)
         /\ side = "two"

C5_Witness ==
  /\ pc = "record"
  /\ NoFlag
  /\ ~is_game_over(board)
  /\ PliesPlayed = 2 * (MAX_MOVES + 1)

\* C6: a game that ends at the cap, with no flag set and a board that is not
\* over, is recorded with result "*" and 0.5 for each side.
C6_CapIsDraw ==
  (pc = "record" /\ NoFlag /\ ~is_game_over(board)) =>
    /\ total_moves > MAX_MOVES
    /\ InfoDict.result = <<"*">>
    /\ InfoDict.player_one_score = Num(1)
    /\ InfoDict.player_two_score = Num(1)

C6_Witness ==
  /\ pc = "record"
  /\ NoFlag
  /\ ~is_game_over(board)
  /\ total_moves > MAX_MOVES
  /\ InfoDict.result = <<"*">>

\* C7: the transcript handed to player.get_move never ends in whitespace.
C7_NoTrailingWhitespace == pc = "get_move" => ~EndsInWhitespace(game_state)

\* player two is asked again, after a random opening on a template that
\* ends in a line break
C7_Witness ==
  /\ pc = "get_move"
  /\ side = "two"
  /\ attempt > 0
  /\ ~IsNone(randomize_opening_moves)
  /\ Depth > 0
  /\ SubSeq(game_state, 1, 3) = <<"[", "]", "\n">>

\* the tokens of a transcript, each without its move-number prefix
\* (eval.py:164-171: split on whitespace, then the part after the last ".")
StripNumber(token) ==
  IF Contains(token, ".") THEN Last(SplitOn(token, ".")) ELSE token

MovesOfTranscript(gs) == [i \in 1..Len(SplitWs(gs)) |-> StripNumber(SplitWs(gs)[i])]

NonEmpty(token) == token # << >>

\* the board reached by push_san of every token in turn from a new board
\* (eval.py:173), or None when a token does not parse or is not legal
RECURSIVE Replay(_, _)
Replay(tokens, b) ==
  IF tokens = << >> THEN Some(b)
  ELSE IF IsNone(parse_san(b, Some(Head(tokens)))) THEN None
  ELSE IF Val(parse_san(b, Some(Head(tokens)))) \notin legal_moves(b) THEN None
  ELSE Replay(Tail(tokens), push(b, Val(parse_san(b, Some(Head(tokens))))))

\* the template holds no whitespace
PlainTemplate(gs) == SubSeq(gs, 1, 1) = <<";">>

\* C8, as claimed, for a template that holds no whitespace: the tokens of
\* the final transcript, stripped of their move numbers, read as moves one
\* after the other, are exactly the moves pushed, with no empty token.
C8_RoundTripExact ==
  (pc = "record" /\ PlainTemplate(game_state)) =>
    Replay(MovesOfTranscript(game_state), NewBoard) = Some(board)

\* C8, amended: when the template holds no whitespace, the stripped tokens
\* that are not empty, read as moves one after the other, are exactly the
\* moves pushed, in order; a move number is a token of its own ("n." before
\* a space) and is left empty.
C8_RoundTripNonEmpty ==
  (pc = "record" /\ PlainTemplate(game_state)) =>
    Replay(SelectSeq(MovesOfTranscript(game_state), NonEmpty), NewBoard) = Some(board)

\* player one resigns in the second iteration: the transcript ends in " 2."
C8_Witness ==
  /\ pc = "record"
  /\ PlainTemplate(game_state)
  /\ player_one_resignation
  /\ Len(board) >= 2
  /\ Len(MovesOfTranscript(game_state)) > Len(board)

\* C9: a proposal that does not parse, or is not legal, costs one attempt:
\* the step of get_legal_move that receives it goes on to the next attempt
\* or returns the exhausted response after the last one, and nothing is
\* raised.
C9_FailedProposalRetries ==
  [][pc = "get_move" =>
       \/ pc' = "get_move" /\ attempt' = attempt + 1
       \/ /\ pc' = "play_turn"
          /\ \/ Val(response').is_resignation /\ Val(response').attempts = attempt
             \/ ~IsNone(Val(response').move_uci) /\ Val(response').attempts = attempt
             \/ /\ Val(response').is_illegal_move
                /\ attempt + 1 = max_attempts]_vars

\* C10: when play_game is over, by returning or by raising, close has been
\* called exactly once on each engine-backed player, and never before.
C10_ClosedOnce ==
  /\ pc \in {"done", "raised"} =>
       /\ closed.one = (IF IsStockfish(player_one) THEN 1 ELSE 0)
       /\ closed.two = (IF IsStockfish(player_two) THEN 1 ELSE 0)
  /\ pc \notin {"done", "raised"} => closed = [one |-> 0, two |-> 0]

\* play_game is over, by returning or by raising
Stopped == pc \in {"done", "raised"}

\* the error of the opening generator, the one that is meant to end the batch
OpeningFailed == raised = Some("Exception")

\* C11: an exception raised while a game is played, other than the failure
\* of the opening generator, does not end the batch: when play_game is over
\* every game but the ones that raised has produced its row, so with one
\* exception at most one row is missing.
C11_BatchSurvivesException ==
  (Stopped /\ ~OpeningFailed) => n_records >= max_games - 1

\* C12: record_results is called once per game, after the game is over and
\* before the next one is initialised, so the rows written are the games
\* finished; a batch that is over without the failure of the opening
\* generator has written max_games rows, and that failure writes no row for
\* its game and ends the batch.
C12_OneRecordPerGame ==
  /\ n_records = games_done
  /\ (Stopped /\ ~OpeningFailed) => n_records = max_games
  /\ OpeningFailed => pc = "raised" /\ n_records < max_games

\* C13: every game that is started ends with its row: a turn asks for at
\* most max_attempts proposals, a game runs at most MAX_MOVES + 1 iterations
\* of the loop, and play_game stops before the last game is recorded only by
\* the failure of the opening generator.
C13_EveryGameRecorded ==
  /\ proposals <= max_attempts
  /\ total_moves <= MAX_MOVES + 1
  /\ pc = "raised" => OpeningFailed
  /\ pc = "done" => n_records = max_games

\* the transcript the opening generator builds for the plies of b
RECURSIVE PgnText(_)
PgnText(b) ==
  IF b = << >> THEN << >>
  ELSE LET n == Len(b) IN
       PgnText(SubSeq(b, 1, n - 1))
       \o (IF n > 1 THEN <<" ">> ELSE << >>)
       \o (IF n % 2 = 1 THEN StrOfNat((n + 1) \div 2) \o <<".", " ">> ELSE << >>)
       \o san(b[n])

\* every ply of b was legal where it was played
LegalLine(b) == \A i \in 1..Len(b) : b[i] \in legal_moves(SubSeq(b, 1, i - 1))

\* initialize_game_with_random_moves has just returned to play_game
OpeningReturned == pc = "while" /\ total_moves = 0 /\ ~IsNone(randomize_opening_moves)

\* C14: initialize_game_with_random_moves with depth N returns a board of
\* exactly 2N legal plies from the start position and the template followed
\* by those plies in PGN numbering, or raises after MAX_INIT_ATTEMPTS
\* attempts; every attempt starts from a new board and the bare template,
\* what an attempt has built is the plies of that attempt only, and a depth
\* of 0 is never returned.
C14_OpeningExact ==
  /\ pc = "init_ply" =>
       /\ init_attempt < MAX_INIT_ATTEMPTS
       /\ Len(board) = 2 * (moveIdx - 1) + player
       /\ LegalLine(board)
       /\ game_state = initial_game_state \o PgnText(board)
  /\ OpeningReturned =>
       /\ Depth >= 1
       /\ Len(board) = 2 * Depth
       /\ LegalLine(board)
       /\ \E t \in Templates : game_state = t \o PgnText(board)
  /\ OpeningFailed =>
       /\ init_attempt = MAX_INIT_ATTEMPTS
       /\ ~IsNone(randomize_opening_moves)
  /\ (InGame /\ ~IsNone(randomize_opening_moves)) => Depth >= 1

\* a later attempt is under way, with the one ply it has generated itself
C14_Witness ==
  /\ pc = "init_ply"
  /\ init_attempt >= 1
  /\ Len(board) = 1
  /\ game_state = initial_game_state \o <<"1", ".", " ">> \o san(board[1])

\* the four counters of the two sides
SideCounters ==
  <<player_one_legal_moves, player_one_illegal_moves,
    player_two_legal_moves, player_two_illegal_moves>>

\* C15: an iteration of the game loop that starts adds one to both legal
\* counters; the turn of a side that cost c attempts adds c to that side's
\* illegal counter and takes one off its legal counter exactly when c > 0,
\* and leaves the other side's counters alone; no other step changes the
\* counters of a game in progress.  So at the end of a game each legal
\* counter is in 0..total_moves, and when the game ends in player one's
\* turn player two's counter still has the one of that iteration: with no
\* failed attempt of player two it is total_moves, one more than the turns
\* player two has played.
C15_CounterBookkeeping ==
  /\ [](pc = "record" =>
          /\ player_one_legal_moves \in 0..total_moves
          /\ player_two_legal_moves \in 0..total_moves
          /\ (side = "one" /\ total_moves >= 1) =>
               /\ player_two_legal_moves >= 1
               /\ player_two_illegal_moves = 0 => player_two_legal_moves = total_moves)
  /\ [][/\ (pc = "while" /\ pc' = "get_move") =>
             /\ total_moves' = total_moves + 1
             /\ player_one_legal_moves' = player_one_legal_moves + 1
             /\ player_two_legal_moves' = player_two_legal_moves + 1
             /\ player_one_illegal_moves' = player_one_illegal_moves
             /\ player_two_illegal_moves' = player_two_illegal_moves
        /\ pc = "play_turn" =>
             /\ turn_illegal' = Val(response).attempts
             /\ SideCounters' = SideCounters
        /\ (pc = "after_turn" /\ side = "one") =>
             /\ player_one_illegal_moves' = player_one_illegal_moves + turn_illegal
             /\ player_one_legal_moves' =
                  player_one_legal_moves - (IF turn_illegal > 0 THEN 1 ELSE 0)
             /\ player_two_illegal_moves' = player_two_illegal_moves
             /\ player_two_legal_moves' = player_two_legal_moves
        /\ (pc = "after_turn" /\ side = "two") =>
             /\ player_two_illegal_moves' = player_two_illegal_moves + turn_illegal
             /\ player_two_legal_moves' =
                  player_two_legal_moves - (IF turn_illegal > 0 THEN 1 ELSE 0)
             /\ player_one_illegal_moves' = player_one_illegal_moves
             /\ player_one_legal_moves' = player_one_legal_moves
        /\ (pc = "get_move" \/ (pc = "while" /\ pc' = "record")) =>
             SideCounters' = SideCounters]_vars

\* the game ends in player one's turn of the second iteration, after failed
\* attempts of player one and a clean turn of player two
C15_Witness ==
  /\ pc = "record"
  /\ side = "one"
  /\ total_moves = 2
  /\ player_one_illegal_moves >= 2
  /\ player_one_legal_moves = 1
  /\ player_two_illegal_moves = 0
  /\ player_two_legal_moves = 2
  /\ Len(board) = OpeningPlies + 2

\* the board before its last ply
BeforeLastPly(b) == SubSeq(b, 1, Len(b) - 1)

\* C16 as stated: whenever a player is asked for a move, tmp/game.txt holds
\* the transcript as it was after the last ply pushed: for player one the
\* transcript less the move number just appended, for player two the whole
\* transcript, which ends in player one's move.
C16_CheckpointAfterEveryPly ==
  pc = "get_move" =>
    /\ side = "one" => game_state = checkpoint \o MoveNumberText(board)
    /\ side = "two" => game_state = checkpoint

\* C16, amended: tmp/game.txt is written once per iteration of the game
\* loop, before the move number is appended, and once more by
\* record_results: when player one is asked for a move the transcript is
\* the file plus the move number; when player two is asked the file is
\* still the one of the start of the iteration, and the transcript is the
\* file plus the move number, a space and player one's move; record_results
\* leaves the final transcript in the file.
C16_CheckpointPerIteration ==
  /\ [](pc = "get_move" =>
          /\ side = "one" => game_state = checkpoint \o MoveNumberText(board)
          /\ side = "two" =>
               \E t \in TextsOf(Last(board)) :
                 game_state =
                   checkpoint \o MoveNumberText(BeforeLastPly(board)) \o <<" ">> \o t)
  /\ [][/\ pc = "record" => checkpoint' = game_state
        /\ pc \in {"get_move", "play_turn", "after_turn"} => checkpoint' = checkpoint]_vars

\* player two is asked for its second move: the file lacks player one's
\* second move
C16_Witness ==
  /\ pc = "get_move"
  /\ side = "two"
  /\ total_moves = 2
  /\ Len(game_state) > Len(checkpoint) + 2

\* C17: the illegal_moves of the row record_results writes is the sum of
\* the two sides' illegal move counts of the game.
C17_IllegalMovesTotal ==
  pc = "record" =>
    InfoDict.illegal_moves =
      InfoDict.player_one_illegal_moves + InfoDict.player_two_illegal_moves

\* C18: the third argument of get_move at attempt i is
\* min(i / max_attempts + 0.001, 0.5): it is in [0.001, 0.5], it never
\* falls from one attempt of a turn to the next, and it rises as long as the
\* one before was under 0.5.  (urgency is in units of 1 / (1000 *
\* max_attempts), so 0.001 is max_attempts and 0.5 is 500 * max_attempts.)
C18_UrgencyHint ==
  /\ [](proposals > 0 => (urgency >= max_attempts /\ urgency <= 500 * max_attempts))
  /\ [][(pc = "get_move" /\ proposals' = proposals + 1) =>
          /\ urgency' * 2 <= 1000 * max_attempts
          /\ \/ urgency' = 1000 * attempt + max_attempts
             \/ urgency' = 500 * max_attempts /\ 1000 * attempt + max_attempts >= urgency'
          /\ proposals > 0 =>
               /\ urgency' >= urgency
               /\ urgency < 500 * max_attempts => urgency' > urgency]_vars

\* the fifth call of a turn of five attempts: 0.5, as the fourth
C18_Witness ==
  /\ pc = "play_turn"
  /\ max_attempts = TurnAttempts
  /\ proposals = TurnAttempts
  /\ urgency = 500 * TurnAttempts

\* C19: play_turn changes the board and the transcript only for a legal
\* move: it pushes that move, which is legal on the board, once, and appends
\* a space and the text of that move; for a resignation or an exhausted
\* response both are as they were, and no attempt of get_legal_move changes
\* either.
C19_TurnMutatesOnlyOnLegalMove ==
  [][/\ pc = "get_move" => (board' = board /\ game_state' = game_state)
     /\ pc = "play_turn" =>
          LET r == Val(response) IN
          IF r.is_resignation \/ r.is_illegal_move
          THEN board' = board /\ game_state' = game_state
          ELSE /\ ~IsNone(r.move_uci)
               /\ Val(r.move_uci) \in legal_moves(board)
               /\ board' = Append(board, Val(r.move_uci))
               /\ \E t \in TextsOf(Val(r.move_uci)) :
                    game_state' = game_state \o <<" ">> \o t]_vars

\* player two has used up its attempts after player one's first move: the
\* board holds that move alone
C19_Witness ==
  /\ pc = "after_turn"
  /\ side = "two"
  /\ player_two_failed_to_find_legal_move
  /\ turn_illegal = TurnAttempts
  /\ Len(board) = 1

\* how many of the four flags are set
FlagsSet ==
  Cardinality({i \in 1..4 :
    <<player_one_resignation, player_two_resignation,
      player_one_failed_to_find_legal_move,
      player_two_failed_to_find_legal_move>>[i]})

\* the side whose turn it is has resigned or has used up its attempts
SideFlag ==
  IF side = "one"
  THEN player_one_resignation \/ player_one_failed_to_find_legal_move
  ELSE player_two_resignation \/ player_two_failed_to_find_legal_move

\* C20: player one is asked for a move only with White to move and player
\* two only with Black to move, on a board that is not over, with or without
\* a random opening; get_legal_move never returns a response with no flag
\* and no move; a turn that is over has pushed one move, or has set a
\* flag of its side and pushed nothing; and at most one of the four flags
\* is set when record_results is called.
C20_TurnParity ==
  /\ pc \in {"get_move", "play_turn"} =>
       /\ ~is_game_over(board)
       /\ (side = "one") <=> WhiteToMove(board)
  /\ pc = "play_turn" =>
       LET r == Val(response) IN
         r.is_resignation \/ r.is_illegal_move
           \/ (~IsNone(r.move_san) /\ ~IsNone(r.move_uci))
  /\ pc = "after_turn" =>
       IF SideFlag
       THEN (side = "one") <=> WhiteToMove(board)
       ELSE (side = "one") <=> ~WhiteToMove(board)
  /\ pc \notin {"after_turn", "record"} => FlagsSet = 0
  /\ pc \in {"after_turn", "record"} => FlagsSet <= 1

\* player two's legal move after a random opening and player one's move
C20_Witness ==
  /\ pc = "play_turn"
  /\ side = "two"
  /\ ~IsNone(randomize_opening_moves)
  /\ Len(board) = OpeningPlies + 1
  /\ ~IsNone(Val(response).move_uci)

====
